---- MODULE Spec2Model ----
(***************************************************************************)
(* A model of the DHCP server of soofff/dhcpserver.                        *)
(*                                                                         *)
(*   Spec       the receive loop of Server::listen and the packet handler  *)
(*              Server::process with Server::send (src/src/server.rs),     *)
(*              over sources that answer through the DhcpHostSource trait  *)
(*              (src/src/sources/mod.rs).                                  *)
(*   SpecCache  the response cache of one query, DhcpRestSourceHttp::json  *)
(*              (src/src/sources/rest.rs), under a clock.                  *)
(***************************************************************************)
EXTENDS Integers, Sequences, FiniteSets, TLC

\* ------------------------------------------------------------------ bounds
MaxSources == 2
MaxNetworks == 2
MaxTime == 3          \* the clock stops here
MaxExpiration == 1    \* the largest configured `cache:` value, in ticks
MaxCalls == 2         \* json calls counted per run
MaxQueries == 2       \* the queries configured for a phase
MaxScripts == 2       \* the scripts configured for a phase
UDP_PACKET_BUFFER_SIZE == 2  \* the bytes of the receive buffer, scaled down

VARIABLES
    buf,              \* the receive buffer of the loop
    process_bytes,    \* the bytes Server::process was spawned with
    sources,          \* the configured sources, in configuration order
    local_networks,   \* the local outbound networks, in interface order
    pc,               \* position of the receive loop / of the handler task
    message,          \* the DhcpMessaging variant of the datagram in hand
    idx,              \* position of the for loop over the sources (1-based)
    result,           \* the Some(result) the source in hand returned, if any
    send_packet,      \* the response packet built by the handler
    trace,            \* what the handler of the datagram in hand has done so far
    ret,              \* the value Server::process returned ("running" until then)
    locked,           \* whether the handler holds the Mutex over the sources
    handlers,         \* the handler tasks spawned and not yet joined
    \* --- one query's DhcpRestSourceHttp and its clock
    cache,            \* HashMap<DhcpRestSourceHttpCacheKey, DhcpRestSourceHttpCacheItem>
    expiration,       \* the query's `cache:` value, in ticks (0: the default)
    method,           \* the query's HTTP method
    now,              \* SystemTime::now(), in ticks
    fetched,          \* per URL: the last response fetched over HTTP, when, with what body
    last,             \* the last json call: its arguments and what it did
    json_calls,       \* the number of json calls so far
    http_requests,    \* the number of HTTP requests so far
    \* --- one custom mapping entry on its way to a DHCP option
    custom,           \* the DhcpRestMappingItemCustom: its tag and expanded data
    option,           \* what try_into made of it (NoOption until then)
    \* --- one phase of a REST source: its query and its mapping
    query,            \* the DhcpRestConfigSchemaQuery as deserialized
    http,             \* the reqwest Client of the query
    mapping,          \* the phase's `mapping`, in iteration order
    mapped,           \* what context_to_result returned, and from what mapping
    \* --- one REST source running its phase methods
    config,           \* the phase's DhcpRestSourceConfigSchema: its queries and scripts
    phase,            \* the phase method in hand
    packet,           \* the client hardware address of the packet in hand
    at,               \* where the phase method is
    qi,               \* position of the for loop over the queries (1-based)
    si,               \* position of the for loop over the scripts (1-based)
    context,          \* the Tera Context of the phase
    children,         \* per script: what became of the child process and its task
    calls,            \* what the phase method has done so far
    phase_ret         \* what the phase method returned ("running" until then)

serverVars == <<buf, process_bytes, sources, local_networks, pc, message, idx, result, send_packet, trace, ret, locked, handlers>>

cacheVars == <<cache, expiration, method, now, fetched, last, json_calls, http_requests>>

customVars == <<custom, option>>

restVars == <<query, http, mapping, mapped>>

phaseVars == <<config, phase, packet, at, qi, si, context, children, calls, phase_ret>>

vars == <<serverVars, cacheVars, customVars, restVars, phaseVars>>

\* What the steps of the server leave alone, and what the steps of the cache do.
ServerFrame == UNCHANGED <<cacheVars, customVars, restVars, phaseVars>>

CacheFrame == UNCHANGED <<serverVars, customVars, restVars, phaseVars>>

CustomFrame == UNCHANGED <<serverVars, cacheVars, restVars, phaseVars>>

RestFrame == UNCHANGED <<serverVars, cacheVars, customVars, phaseVars>>

PhaseFrame == UNCHANGED <<serverVars, cacheVars, customVars, restVars>>

\* ------------------------------------------------------------ server: data
MessageTypes == {"Discover", "Offer", "Request", "Inform", "Release", "Decline", "Ack", "Nak"}

\* A datagram either decodes to one DhcpMessaging variant or does not decode.
Datagrams == MessageTypes \cup {"Undecodable"}

QueryPhases == {"Discover", "Request", "Inform"}

NotifyPhases == {"Release", "Decline"}

Discarded == {"Offer", "Ack", "Nak"}

None == "None"

UNSPECIFIED == "0.0.0.0"

ClientIps == {"1.2.3.4", "5.5.5.5"}

\* DhcpSourceResult as the handler reads it: the optional client IP, and
\* whether options.try_u32_option(IP_ADDRESS_LEASE_TIME) succeeds.
DhcpSourceResult == [client_ip_address : ClientIps \cup {None}, lease_time : BOOLEAN]

NoResult == [client_ip_address |-> None, lease_time |-> FALSE, some |-> FALSE]

NoPacket == [type |-> None, yiaddr |-> UNSPECIFIED, src |-> 0]

\* The addresses of the local interfaces, each Ipv4Addr as its four octets.
Ipv4Addrs == {<<10, 0, 0, 1>>, <<10, 0, 1, 1>>}

\* What an event that is not a step of Server::send has for an address.
NoAddr == <<0, 0, 0, 0>>

\* The prefix lengths of the local networks.
Prefixes == {24, 30}

\* Ipv4Network: the address of the interface and its prefix length.
Ipv4Network == [ip : Ipv4Addrs, prefix : Prefixes]

\* Ipv4Network::broadcast: the address with every host bit set, octet by octet
\* (host is the number of host bits of the octet).
broadcast(a) ==
    [i \in 1..4 |->
        LET net  == a.prefix - (8 * (i - 1))
            host == IF net >= 8 THEN 0 ELSE IF net <= 0 THEN 8 ELSE 8 - net
        IN  ((a.ip[i] \div (2 ^ host)) * (2 ^ host)) + ((2 ^ host) - 1)]

\* local_networks.iter().map(|s| s.ip()).collect()
server_ips(networks) == {networks[k].ip : k \in DOMAIN networks}

\* DhcpPacket::into_bytes_with_server_ips: the maps the library can return,
\* each as the set of the server IPs it holds an image for.
into_bytes_with_server_ips(ips) == SUBSET ips

Event(op, src, net, type, ip) ==
    [op |-> op, src |-> src, net |-> net, type |-> type, ip |-> ip,
     dest |-> NoAddr, image |-> NoAddr]

\* What Server::send does for network k: the packet, the address the sender
\* was set to and the server IP whose image left the map (NoAddr: none did).
SendEvent(op, p, k, dest, image) ==
    [op |-> op, src |-> p.src, net |-> k, type |-> p.type, ip |-> p.yiaddr,
     dest |-> dest, image |-> image]

\* The trait method the handler calls on a source for an incoming message.
PhaseMethod(m) ==
    CASE m = "Discover" -> "offer"
      [] m = "Request"  -> "reserve"
      [] m = "Inform"   -> "inform"
      [] m = "Release"  -> "release"
      [] m = "Decline"  -> "decline"

\* Mutant of ResponseType: every response is built with into_ack.
ResponseType_always_ack(m) == "Ack"

\* into_offer for a DISCOVER, into_ack for a REQUEST and for an INFORM.
ResponseType(m) == IF m = "Discover" THEN "Offer" ELSE "Ack"

\* into_offer and the REQUEST's into_ack take try_u32_option(IP_ADDRESS_LEASE_TIME)?,
\* the INFORM's into_ack takes no lease time.
NeedsLeaseTime(m) == m \in {"Discover", "Request"}

\* Mutant of BuildOutcome: the client IP is not required (ok_or(..)? dropped).
BuildOutcome_ip_unchecked(m, r) ==
    IF NeedsLeaseTime(m) /\ ~r.lease_time THEN "Err_DhcpLibError" ELSE "build"

\* What the match arm Ok(Some(result)) does up to the packet_sending hook: the
\* error it returns with `?`, or "build" when the response packet is built.
BuildOutcome(m, r) ==
    IF r.client_ip_address = None THEN "Err_ClientIpAddressMissing"
    ELSE IF NeedsLeaseTime(m) /\ ~r.lease_time THEN "Err_DhcpLibError"
    ELSE "build"

\* Mutant of MissOutcome: the Err arm returns the error (as with `?`).
MissOutcome_err_returns(kind) == IF kind = "Err" THEN "Err_Source" ELSE "continue"

\* What the arms Ok(None) and Err(e) of a query phase do: go on with the next
\* source ("continue"), the Err arm after log::error!.
MissOutcome(kind) == "continue"

\* What release(..).await? and decline(..).await? do with the source's answer.
NotifyOutcome(kind) == IF kind = "Err" THEN "Err_Source" ELSE "continue"

\* Mutants of AfterLoop: no NAK after a REQUEST; a NAK after every query phase.
AfterLoop_never_nak(m) == "return"

AfterLoop_always_nak(m) == "nak"

\* What follows the for loop when no source made the handler return.
AfterLoop(m) == IF m = "Request" THEN "nak" ELSE "return"

\* The for loop of Server::send from network k on: bytes is the set of server
\* IPs the map still holds an image for, failAt the position whose send_to
\* fails (0: none). sender.set_ip(a.broadcast()), then bytes.remove(&a.ip()):
\* Some(b) is sent with send_to(..)?, None skips the network.
RECURSIVE send_loop(_, _, _, _, _, _)
send_loop(p, networks, n, k, bytes, failAt) ==
    IF k > n THEN [events |-> <<>>, ok |-> TRUE]
    ELSE LET a == networks[k]
         IN  IF a.ip \in bytes
             THEN IF k = failAt
                  THEN [events |-> <<SendEvent("send_failed", p, k, broadcast(a), a.ip)>>,
                        ok |-> FALSE]
                  ELSE LET rest == send_loop(p, networks, n, k + 1, bytes \ {a.ip}, failAt)
                       IN  [events |-> <<SendEvent("send_to", p, k, broadcast(a), a.ip)>>
                                           \o rest.events,
                            ok |-> rest.ok]
             ELSE LET rest == send_loop(p, networks, n, k + 1, bytes, failAt)
                  IN  [events |-> <<SendEvent("skip", p, k, broadcast(a), NoAddr)>>
                                      \o rest.events,
                       ok |-> rest.ok]

\* Mutant of send: the loop returns after the first network.
send_first_network_only(p, networks, bytes, failAt) ==
    send_loop(p, networks, IF Len(networks) > 1 THEN 1 ELSE Len(networks), 1, bytes, failAt)

\* Server::send with the map the library returned and the send_to that fails.
send(p, networks, bytes, failAt) == send_loop(p, networks, Len(networks), 1, bytes, failAt)

\* ------------------------------------------------- server: receive buffer
\* The bytes of the datagram of each kind: the DHCP code of its message type,
\* followed for some kinds by one option byte.
Image(d) ==
    CASE d = "Discover" -> <<1>>
      [] d = "Offer" -> <<2>>
      [] d = "Request" -> <<3, 50>>
      [] d = "Decline" -> <<4>>
      [] d = "Ack" -> <<5>>
      [] d = "Nak" -> <<6>>
      [] d = "Release" -> <<7>>
      [] d = "Inform" -> <<8, 55>>
      [] OTHER -> <<0>>

\* socket.recv_from(&mut buf): the datagram is written over the head of the
\* buffer, cut at the buffer's length; the bytes behind it stay as they were.
recv_from(b, d) ==
    [i \in 1..Len(b) |-> IF i <= Len(d) THEN d[i] ELSE b[i]]

\* ---------------------------------------------------------- server: actions
ServerInit ==
    /\ sources \in {[i \in 1..n |-> "rest"] : n \in 0..MaxSources}
    /\ local_networks \in UNION {[1..n -> Ipv4Network] : n \in 0..MaxNetworks}
    /\ pc = "recv"
    /\ message = None
    /\ idx = 0
    /\ result = NoResult
    /\ send_packet = NoPacket
    /\ trace = <<>>
    /\ ret = "Ok"
    /\ locked = FALSE
    /\ handlers = 0
    /\ buf = [i \in 1..UDP_PACKET_BUFFER_SIZE |-> 0]
    /\ process_bytes = <<>>

\* Mutant of Recv: the loop does not await the task it spawned and receives
\* the next datagram wherever the handler is.
Recv_not_awaiting ==
    /\ \E d \in Datagrams :
          /\ buf' = recv_from(buf, Image(d))
          /\ message' = d
    /\ process_bytes' = buf'
    /\ pc' = "process"
    /\ idx' = 0
    /\ result' = NoResult
    /\ send_packet' = NoPacket
    /\ trace' = <<>>
    /\ ret' = "running"
    /\ handlers' = handlers + 1
    /\ UNCHANGED <<sources, local_networks, locked>>
    /\ ServerFrame

\* loop { socket.recv_from(&mut buf)?; ... tokio::spawn(process(..)) ...
Recv ==
    /\ pc = "recv"
    /\ \E d \in Datagrams :
          /\ buf' = recv_from(buf, Image(d))
          /\ message' = d
    /\ process_bytes' = buf'
    /\ pc' = "process"
    /\ idx' = 0
    /\ result' = NoResult
    /\ send_packet' = NoPacket
    /\ trace' = <<>>
    /\ ret' = "running"
    /\ handlers' = handlers + 1
    /\ UNCHANGED <<sources, local_networks, locked>>
    /\ ServerFrame

\* DhcpMessaging::try_from(bytes)? fails
ProcessUndecodable ==
    /\ pc = "process" /\ message = "Undecodable"
    /\ ret' = "Err_DhcpLibError"
    /\ pc' = "join"
    /\ UNCHANGED <<handlers, buf, process_bytes, sources, local_networks, message, idx, result, send_packet, trace, locked>>
    /\ ServerFrame

\* the arms Offer(_), Ack(_), Nak(_): a trace log, then Ok(())
ProcessDiscard ==
    /\ pc = "process" /\ message \in Discarded
    /\ ret' = "Ok"
    /\ pc' = "join"
    /\ UNCHANGED <<handlers, buf, process_bytes, sources, local_networks, message, idx, result, send_packet, trace, locked>>
    /\ ServerFrame

\* Mutant of ProcessLock: the loop runs over the sources without the lock.
ProcessLock_without_lock ==
    /\ pc = "process" /\ message \in QueryPhases \cup NotifyPhases
    /\ ~locked
    /\ idx' = 1
    /\ pc' = "loop"
    /\ UNCHANGED <<handlers, buf, process_bytes, sources, local_networks, message, result, send_packet, trace, ret, locked>>
    /\ ServerFrame

\* for source in sources.lock().await.iter_mut()
ProcessLock ==
    /\ pc = "process" /\ message \in QueryPhases \cup NotifyPhases
    /\ ~locked
    /\ locked' = TRUE
    /\ idx' = 1
    /\ pc' = "loop"
    /\ UNCHANGED <<handlers, buf, process_bytes, sources, local_networks, message, result, send_packet, trace, ret>>
    /\ ServerFrame

\* source.packet_received(p.packet()).await?  (the trait's default: Ok(()))
PacketReceived ==
    /\ pc = "loop" /\ idx <= Len(sources)
    /\ trace' = Append(trace, Event("packet_received", idx, 0, "Ok", None))
    /\ pc' = "phase"
    /\ UNCHANGED <<handlers, buf, process_bytes, sources, local_networks, message, idx, result, send_packet, ret, locked>>
    /\ ServerFrame

\* match source.offer / reserve / inform (..).await { Ok(Some(result)) => ..
PhaseSome ==
    /\ pc = "phase" /\ message \in QueryPhases
    /\ \E r \in DhcpSourceResult :
         LET out == BuildOutcome(message, r)
             ev  == Event(PhaseMethod(message), idx, 0, "Some", r.client_ip_address)
         IN  /\ trace' = Append(trace, ev)
             /\ result' = [client_ip_address |-> r.client_ip_address,
                           lease_time |-> r.lease_time, some |-> TRUE]
             /\ IF out = "build"
                THEN /\ send_packet' = [type |-> ResponseType(message),
                                        yiaddr |-> r.client_ip_address,
                                        src |-> idx]
                     /\ pc' = "packet_sending"
                     /\ UNCHANGED <<ret, locked>>
                ELSE /\ ret' = out
                     /\ pc' = "join"
                     /\ locked' = FALSE
                     /\ UNCHANGED send_packet
    /\ UNCHANGED <<handlers, buf, process_bytes, sources, local_networks, message, idx>>
    /\ ServerFrame

\* .. Ok(None) => log::debug!(..), Err(e) => log::error!(..) }
PhaseMiss ==
    /\ pc = "phase" /\ message \in QueryPhases
    /\ \E kind \in {"None", "Err"} :
         LET ev  == Event(PhaseMethod(message), idx, 0, kind, None)
             log == IF kind = "Err" THEN <<Event("log_error", idx, 0, kind, None)>> ELSE <<>>
         IN  /\ trace' = Append(trace, ev) \o log
             /\ IF MissOutcome(kind) = "continue"
                THEN /\ idx' = idx + 1
                     /\ pc' = "loop"
                     /\ UNCHANGED <<ret, locked>>
                ELSE /\ ret' = MissOutcome(kind)
                     /\ pc' = "join"
                     /\ locked' = FALSE
                     /\ UNCHANGED idx
    /\ UNCHANGED <<handlers, buf, process_bytes, sources, local_networks, message, result, send_packet>>
    /\ ServerFrame

\* source.release(&p.packet()).await?;  source.decline(&p.packet()).await?;
PhaseNotify ==
    /\ pc = "phase" /\ message \in NotifyPhases
    /\ \E kind \in {"Ok", "Err"} :
         /\ trace' = Append(trace, Event(PhaseMethod(message), idx, 0, kind, None))
         /\ IF NotifyOutcome(kind) = "continue"
            THEN /\ idx' = idx + 1
                 /\ pc' = "loop"
                 /\ UNCHANGED <<ret, locked>>
            ELSE /\ ret' = NotifyOutcome(kind)
                 /\ pc' = "join"
                 /\ locked' = FALSE
                 /\ UNCHANGED idx
    /\ UNCHANGED <<handlers, buf, process_bytes, sources, local_networks, message, result, send_packet>>
    /\ ServerFrame

\* The phase call of the source in hand panics: the task unwinds, the guard
\* of the Mutex is dropped and the JoinHandle yields Err(JoinError).
PhasePanic ==
    /\ pc = "phase"
    /\ trace' = Append(trace, Event(PhaseMethod(message), idx, 0, "Panic", None))
    /\ ret' = "Panic"
    /\ pc' = "join"
    /\ locked' = FALSE
    /\ UNCHANGED <<handlers, buf, process_bytes, sources, local_networks, message, idx, result, send_packet>>
    /\ ServerFrame

\* source.packet_sending(&send_packet).await?  (the trait's default: Ok(()))
PacketSending ==
    /\ pc = "packet_sending"
    /\ trace' = Append(trace, Event("packet_sending", idx, 0, "Ok", None))
    /\ pc' = "send"
    /\ UNCHANGED <<handlers, buf, process_bytes, sources, local_networks, message, idx, result, send_packet, ret, locked>>
    /\ ServerFrame

\* Mutant of SendResponse: the error of Server::send is dropped (no `?`).
SendResponse_error_dropped ==
    /\ pc = "send"
    /\ \E bytes \in into_bytes_with_server_ips(server_ips(local_networks)),
          failAt \in 0..Len(local_networks) :
         LET r == send(send_packet, local_networks, bytes, failAt)
         IN  /\ trace' = trace \o r.events
             /\ pc' = "packet_sent"
             /\ UNCHANGED <<ret, locked>>
    /\ UNCHANGED <<handlers, buf, process_bytes, sources, local_networks, message, idx, result, send_packet>>
    /\ ServerFrame

\* Self::send(send_packet, socket, sender, local_networks)?  for an OFFER or ACK
SendResponse ==
    /\ pc = "send"
    /\ \E bytes \in into_bytes_with_server_ips(server_ips(local_networks)),
          failAt \in 0..Len(local_networks) :
         LET r == send(send_packet, local_networks, bytes, failAt)
         IN  /\ trace' = trace \o r.events
             /\ IF r.ok
                THEN /\ pc' = "packet_sent"
                     /\ UNCHANGED <<ret, locked>>
                ELSE /\ ret' = "Err_IoError"
                     /\ pc' = "join"
                     /\ locked' = FALSE
    /\ UNCHANGED <<handlers, buf, process_bytes, sources, local_networks, message, idx, result, send_packet>>
    /\ ServerFrame

\* Mutant of PacketSent: the break / return after packet_sent is missing, the
\* loop goes on with the next source.
PacketSent_no_break ==
    /\ pc = "packet_sent"
    /\ trace' = Append(trace, Event("packet_sent", idx, 0, "Ok", None))
    /\ idx' = idx + 1
    /\ pc' = "loop"
    /\ UNCHANGED <<handlers, buf, process_bytes, sources, local_networks, message, result, send_packet, ret, locked>>
    /\ ServerFrame

\* source.packet_sent().await?; then break (DISCOVER) or return Ok(()) (REQUEST, INFORM)
PacketSent ==
    /\ pc = "packet_sent"
    /\ trace' = Append(trace, Event("packet_sent", idx, 0, "Ok", None))
    /\ ret' = "Ok"
    /\ pc' = "join"
    /\ locked' = FALSE
    /\ UNCHANGED <<handlers, buf, process_bytes, sources, local_networks, message, idx, result, send_packet>>
    /\ ServerFrame

\* the for loop ends without a hit; the guard of the Mutex is dropped with it
LoopEnd ==
    /\ pc = "loop" /\ idx > Len(sources)
    /\ locked' = FALSE
    /\ IF AfterLoop(message) = "nak"
       THEN /\ send_packet' = [type |-> "Nak", yiaddr |-> UNSPECIFIED, src |-> 0]
            /\ pc' = "nak"
            /\ UNCHANGED ret
       ELSE /\ ret' = "Ok"
            /\ pc' = "join"
            /\ UNCHANGED send_packet
    /\ UNCHANGED <<handlers, buf, process_bytes, sources, local_networks, message, idx, result, trace>>
    /\ ServerFrame

\* p.into_nak(..); Self::send(send_packet, socket, sender, local_networks)?; Ok(())
SendNak ==
    /\ pc = "nak"
    /\ \E bytes \in into_bytes_with_server_ips(server_ips(local_networks)),
          failAt \in 0..Len(local_networks) :
         LET r == send(send_packet, local_networks, bytes, failAt)
         IN  /\ trace' = trace \o r.events
             /\ ret' = IF r.ok THEN "Ok" ELSE "Err_IoError"
    /\ pc' = "join"
    /\ UNCHANGED <<handlers, buf, process_bytes, sources, local_networks, message, idx, result, send_packet, locked>>
    /\ ServerFrame

\* Mutant of Join: a handler that did not return Ok ends the loop.
Join_exits_on_error ==
    /\ pc = "join"
    /\ pc' = IF ret = "Ok" THEN "recv" ELSE "exit"
    /\ handlers' = handlers - 1
    /\ UNCHANGED <<buf, process_bytes, sources, local_networks, message, idx, result, send_packet, trace, ret, locked>>
    /\ ServerFrame

\* match tokio::spawn(..).await { Ok(_) => {}, Err(e) => log::error!(..) }
\* Ok(_) is whatever Server::process returned, Ok(()) or Err(e); Err(e) is
\* the JoinError of a handler that panicked.
Join ==
    /\ pc = "join"
    /\ pc' = "recv"
    /\ trace' = IF ret = "Panic"
                THEN Append(trace, Event("log_error", 0, 0, "JoinError", None))
                ELSE trace
    /\ handlers' = handlers - 1
    /\ UNCHANGED <<buf, process_bytes, sources, local_networks, message, idx, result, send_packet, ret, locked>>
    /\ ServerFrame

ServerNext ==
    \/ Recv
    \/ ProcessUndecodable
    \/ ProcessDiscard
    \/ ProcessLock
    \/ PacketReceived
    \/ PhaseSome
    \/ PhaseMiss
    \/ PhaseNotify
    \/ PhasePanic
    \/ PacketSending
    \/ SendResponse
    \/ PacketSent
    \/ LoopEnd
    \/ SendNak
    \/ Join

\* ------------------------------------------------------- query cache: data
Methods == {"GET", "POST"}

Urls == {"http://a/", "http://b/"}

Bodies == {"body1", "body2"}

\* The JSON documents the HTTP server may answer with.
JsonValues == {"json1", "json2"}

\* self.http.request(..).json(body).build()?, execute(request).await? or
\* response.json().await? failed.
ReqwestError == "Err_ReqwestError"

\* What the HTTP server answers and how many ticks the exchange takes; a call
\* answered from the cache has no exchange.
Responses(hit) == IF hit THEN {None} ELSE JsonValues \cup {ReqwestError}

Latencies(hit) == IF hit THEN {0} ELSE {0, 1}

\* DhcpRestSourceHttpCacheKey { url, method }
CacheKey(url, m) == [url |-> url, method |-> m]

\* From<serde_json::Value>: the item is stamped with SystemTime::now().
CacheItem(data, t) == [data |-> data, time |-> t]

EmptyCache == [k \in {} |-> CacheItem(None, 0)]

insert(c, key, item) == [k \in DOMAIN c \cup {key} |-> IF k = key THEN item ELSE c[k]]

\* Mutant of remove: the entry stays in the map.
remove_nothing(c, key) == c

\* self.cache.remove(&key)
remove(c, key) == [k \in DOMAIN c \ {key} |-> c[k]]

\* Mutant of expired: an entry is expired already when its age equals the duration.
expired_at_the_limit(item, duration, t) == t >= item.time + duration

\* Mutant of expired: an entry never expires.
expired_never(item, duration, t) == FALSE

\* DhcpRestSourceHttpCacheItem::expired, with t for SystemTime::now()
expired(item, duration, t) == t > item.time + duration

\* Mutant of caching: a response is inserted whatever the expiration.
caching_always(duration) == duration >= 0

\* if self.expiration.as_secs_f32() > 0.0
caching(duration) == duration > 0

\* if let Some(j) = self.cache.get(&key) { if !j.expired(self.expiration) {
cached(c, duration, t, key) == key \in DOMAIN c /\ ~expired(c[key], duration, t)

\* Mutant of json: a failed request leaves an entry for the key behind.
json_caches_failure(c, duration, t, m, url, body, response, d) ==
    LET key == CacheKey(url, m)
        c1  == IF key \in DOMAIN c THEN remove(c, key) ELSE c
    IN  IF cached(c, duration, t, key)
        THEN [cache |-> c, ret |-> c[key].data, http |-> FALSE, requests |-> 0,
              evicted |-> FALSE, sent |-> None, time |-> t]
        ELSE [cache |-> IF caching(duration) \/ response = ReqwestError
                        THEN insert(c1, key, CacheItem(response, t + d))
                        ELSE c1,
              ret |-> response, http |-> TRUE, requests |-> 1,
              evicted |-> key \in DOMAIN c, sent |-> body, time |-> t + d]

\* Mutant of json: the cache answers only a call that brings the first body.
json_body_sensitive(c, duration, t, m, url, body, response, d) ==
    LET key == CacheKey(url, m)
        c1  == IF key \in DOMAIN c THEN remove(c, key) ELSE c
    IN  IF cached(c, duration, t, key) /\ body = "body1"
        THEN [cache |-> c, ret |-> c[key].data, http |-> FALSE, requests |-> 0,
              evicted |-> FALSE, sent |-> None, time |-> t]
        ELSE [cache |-> IF caching(duration)
                        THEN insert(c1, key, CacheItem(response, t + d))
                        ELSE c1,
              ret |-> response, http |-> TRUE, requests |-> 1,
              evicted |-> key \in DOMAIN c, sent |-> body, time |-> t + d]

\* DhcpRestSourceHttp::json called at time t, with the HTTP server's answer
\* (response, after d ticks) as input should the call get to the request.
\* http: the call went on to the HTTP request; requests: the requests it
\* sent; time: the clock on return. A failed request or a body that is not
\* JSON leaves through `?` before the insert.
json(c, duration, t, m, url, body, response, d) ==
    LET key == CacheKey(url, m)
        c1  == IF key \in DOMAIN c THEN remove(c, key) ELSE c
    IN  IF cached(c, duration, t, key)
        THEN [cache |-> c, ret |-> c[key].data, http |-> FALSE, requests |-> 0,
              evicted |-> FALSE, sent |-> None, time |-> t]
        ELSE IF response = ReqwestError
        THEN [cache |-> c1, ret |-> ReqwestError, http |-> TRUE, requests |-> 1,
              evicted |-> key \in DOMAIN c, sent |-> body, time |-> t + d]
        ELSE [cache |-> IF caching(duration)
                        THEN insert(c1, key, CacheItem(response, t + d))
                        ELSE c1,
              ret |-> response, http |-> TRUE, requests |-> 1,
              evicted |-> key \in DOMAIN c, sent |-> body, time |-> t + d]

NoFetch == [data |-> None, time |-> 0, body |-> None, some |-> FALSE]

NoCall == [key |-> CacheKey(None, None), body |-> None, at |-> 0, ret |-> None,
           http |-> FALSE, requests |-> 0, evicted |-> FALSE, prev |-> NoFetch,
           called |-> FALSE]

\* ---------------------------------------------------- query cache: actions
\* What Spec holds the cache at, and what SpecCache holds the server at.
CacheIdle ==
    /\ cache = EmptyCache
    /\ expiration = 0
    /\ method = "GET"
    /\ now = 0
    /\ fetched = [u \in Urls |-> NoFetch]
    /\ last = NoCall
    /\ json_calls = 0
    /\ http_requests = 0

ServerIdle ==
    /\ sources = <<>>
    /\ local_networks = <<>>
    /\ pc = "recv"
    /\ message = None
    /\ idx = 0
    /\ result = NoResult
    /\ send_packet = NoPacket
    /\ trace = <<>>
    /\ ret = "Ok"
    /\ locked = FALSE
    /\ handlers = 0
    /\ buf = [i \in 1..UDP_PACKET_BUFFER_SIZE |-> 0]
    /\ process_bytes = <<>>

\* DhcpRestSourceHttp::deserialize_with / default: an empty cache and the
\* configured expiration (0.0 when `cache:` is absent)
CacheInit ==
    /\ cache = EmptyCache
    /\ expiration \in 0..MaxExpiration
    /\ method \in Methods
    /\ now = 0
    /\ fetched = [u \in Urls |-> NoFetch]
    /\ last = NoCall
    /\ json_calls = 0
    /\ http_requests = 0

\* q.cache.json(q.method.clone(), templated_query.parse()?, &q.body).await
JsonCall ==
    /\ json_calls < MaxCalls
    /\ \E url \in Urls, body \in Bodies :
        \E response \in Responses(cached(cache, expiration, now, CacheKey(url, method))),
           d \in Latencies(cached(cache, expiration, now, CacheKey(url, method))) :
         LET r == json(cache, expiration, now, method, url, body, response, d)
         IN  /\ r.time <= MaxTime
             /\ cache' = r.cache
             /\ now' = r.time
             /\ last' = [key |-> CacheKey(url, method), body |-> body, at |-> now,
                         ret |-> r.ret, http |-> r.http, requests |-> r.requests,
                         evicted |-> r.evicted,
                         prev |-> fetched[url], called |-> TRUE]
             /\ fetched' =
                  IF r.http /\ r.ret # ReqwestError
                  THEN [fetched EXCEPT ![url] = [data |-> r.ret, time |-> r.time, body |-> r.sent,
                                                 some |-> TRUE]]
                  ELSE fetched
             /\ http_requests' = http_requests + r.requests
    /\ json_calls' = json_calls + 1
    /\ UNCHANGED <<expiration, method>>
    /\ CacheFrame

\* time passes between two calls
Tick ==
    /\ now < MaxTime
    /\ now' = now + 1
    /\ UNCHANGED <<cache, expiration, method, fetched, last, json_calls, http_requests>>
    /\ CacheFrame

CacheNext ==
    \/ JsonCall
    \/ Tick

\* ------------------------------------------------ REST mapping: YAML values
\* serde_yaml::Value. A number is one of serde_yaml's PosInt(u64), NegInt(i64)
\* and Float(f64); its 64 bits are held as four 16-bit words, the most
\* significant first.
Value(kind, b, s, n, bits) == [kind |-> kind, b |-> b, s |-> s, n |-> n, bits |-> bits]

Null == Value("Null", FALSE, "", "", <<0, 0, 0, 0>>)

Bool(b) == Value("Bool", b, "", "", <<0, 0, 0, 0>>)

String(s) == Value("String", FALSE, s, "", <<0, 0, 0, 0>>)

\* a sequence and a mapping, whatever they hold
Sequence == Value("Sequence", FALSE, "", "", <<0, 0, 0, 0>>)

Mapping == Value("Mapping", FALSE, "", "", <<0, 0, 0, 0>>)

PosInt(w) == Value("Number", FALSE, "", "PosInt", w)

NegInt(w) == Value("Number", FALSE, "", "NegInt", w)

Float(w) == Value("Number", FALSE, "", "Float", w)

\* The u64 holding n, for 0 <= n < 2^31.
Words(n) == <<0, 0, n \div 65536, n % 65536>>

Complement(w) == [i \in 1..4 |-> 65535 - w[i]]

\* The i64 holding n in two's complement, for -2^31 <= n < 2^31.
I64(n) == IF n >= 0 THEN Words(n) ELSE Complement(Words(-(n + 1)))

\* An integer literal as serde_yaml reads it: u64 first, i64 when negative.
Integer(n) == IF n >= 0 THEN PosInt(Words(n)) ELSE NegInt(I64(n))

\* Option<T> of a number or of bytes
Some(x) == [some |-> TRUE, v |-> x]

Nothing == [some |-> FALSE, v |-> <<>>]

\* serde_yaml::Number::as_i64
as_i64(num) ==
    CASE num.n = "PosInt" -> IF num.bits[1] < 32768 THEN Some(num.bits) ELSE Nothing
      [] num.n = "NegInt" -> Some(num.bits)
      [] num.n = "Float"  -> Nothing

\* serde_yaml::Number::as_u64
as_u64(num) == IF num.n = "PosInt" THEN Some(num.bits) ELSE Nothing

\* w + 1 on 64 bits
increment(w) ==
    CASE w[4] < 65535 -> <<w[1], w[2], w[3], w[4] + 1>>
      [] w[4] = 65535 /\ w[3] < 65535 -> <<w[1], w[2], w[3] + 1, 0>>
      [] w[4] = 65535 /\ w[3] = 65535 /\ w[2] < 65535 -> <<w[1], w[2] + 1, 0, 0>>
      [] OTHER -> <<(w[1] + 1) % 65536, 0, 0, 0>>

\* w shifted left by one bit
shl1(w) ==
    [i \in 1..4 |-> ((2 * w[i]) % 65536) + (IF i < 4 /\ w[i + 1] >= 32768 THEN 1 ELSE 0)]

\* w shifted left until its top bit is set, and by how many bits (w # 0)
RECURSIVE normalize(_, _)
normalize(w, k) ==
    IF w[1] >= 32768 THEN [w |-> w, k |-> k] ELSE normalize(shl1(w), k + 1)

\* The f64 nearest to the magnitude m (u64), ties to even, with the sign
\* given: bit 63 the sign, 11 bits of exponent, 52 bits of mantissa.
magnitude_as_f64(m, sign) ==
    IF m = <<0, 0, 0, 0>> THEN <<32768 * sign, 0, 0, 0>>
    ELSE LET z    == normalize(m, 0)
             rest == z.w[4] % 2048
             kept == <<z.w[1] - 32768, z.w[2], z.w[3], z.w[4] \div 2048>>
             up   == rest > 1024 \/ (rest = 1024 /\ kept[4] % 2 = 1)
             man  == CASE ~up -> kept
                       [] up /\ kept[4] < 31 -> <<kept[1], kept[2], kept[3], kept[4] + 1>>
                       [] up /\ kept[4] = 31 /\ kept[3] < 65535 -> <<kept[1], kept[2], kept[3] + 1, 0>>
                       [] up /\ kept[4] = 31 /\ kept[3] = 65535 /\ kept[2] < 65535 ->
                              <<kept[1], kept[2] + 1, 0, 0>>
                       [] OTHER -> <<(kept[1] + 1) % 32768, 0, 0, 0>>
             over == up /\ kept = <<32767, 65535, 65535, 31>>
             e    == 1023 + 63 - z.k + (IF over THEN 1 ELSE 0)
         IN  << 32768 * sign + 16 * e + (man[1] \div 2048),
                32 * (man[1] % 2048) + (man[2] \div 2048),
                32 * (man[2] % 2048) + (man[3] \div 2048),
                32 * (man[3] % 2048) + man[4] >>

\* serde_yaml::Number::as_f64: `n as f64` for both integers, Some for every number
as_f64(num) ==
    CASE num.n = "PosInt" -> Some(magnitude_as_f64(num.bits, 0))
      [] num.n = "NegInt" -> Some(magnitude_as_f64(increment(Complement(num.bits)), 1))
      [] num.n = "Float"  -> Some(num.bits)

\* Mutant of to_be_bytes: the least significant byte first.
to_le_bytes(w) ==
    << w[4] % 256, w[4] \div 256, w[3] % 256, w[3] \div 256,
       w[2] % 256, w[2] \div 256, w[1] % 256, w[1] \div 256 >>

\* i64 / f64 / u64 ::to_be_bytes().to_vec()
to_be_bytes(w) ==
    << w[1] \div 256, w[1] % 256, w[2] \div 256, w[2] % 256,
       w[3] \div 256, w[3] % 256, w[4] \div 256, w[4] % 256 >>

\* The Unicode scalar values of the strings in use.
chars(s) ==
    CASE s = ""     -> <<>>
      [] s = "abc"  -> <<97, 98, 99>>
      [] s = "é"    -> <<233>>
      [] s = "€"    -> <<8364>>

\* The UTF-8 encoding of one scalar value.
utf8(c) ==
    CASE c < 128   -> <<c>>
      [] c >= 128 /\ c < 2048 -> <<192 + (c \div 64), 128 + (c % 64)>>
      [] c >= 2048 /\ c < 65536 ->
            <<224 + (c \div 4096), 128 + ((c \div 64) % 64), 128 + (c % 64)>>
      [] OTHER ->
            <<240 + (c \div 262144), 128 + ((c \div 4096) % 64),
              128 + ((c \div 64) % 64), 128 + (c % 64)>>

RECURSIVE encode_utf8(_)
encode_utf8(q) == IF q = <<>> THEN <<>> ELSE utf8(Head(q)) \o encode_utf8(Tail(q))

\* String::as_bytes().to_vec()
as_bytes(s) == encode_utf8(chars(s))

\* DhcpOption::Unknown(tag, d)
Unknown(tag, d) == [code |-> tag, bytes |-> d]

CustomRestTypeError == "Err_CustomRestTypeError"

\* Result<DhcpOption, DhcpError>
Ok(x) == [ok |-> TRUE, v |-> x, err |-> None]

Err(e) == [ok |-> FALSE, v |-> Unknown(0, <<>>), err |-> e]

\* The Value::Number arm of try_into: as_i64, then as_f64, then as_u64;
\* Nothing stands for the return of Err(CustomRestTypeError).
number_bytes(num) ==
    IF as_i64(num).some THEN Some(to_be_bytes(as_i64(num).v))
    ELSE IF as_f64(num).some THEN Some(to_be_bytes(as_f64(num).v))
    ELSE IF as_u64(num).some THEN Some(to_be_bytes(as_u64(num).v))
    ELSE Nothing

\* impl TryInto<DhcpOption> for DhcpRestMappingItemCustom
try_into(c) ==
    LET d == CASE c.data.kind = "Null"   -> Some(<<>>)
               [] c.data.kind = "Bool"   -> Some(IF c.data.b THEN <<1>> ELSE <<0>>)
               [] c.data.kind = "Number" -> number_bytes(c.data)
               [] c.data.kind = "String" -> Some(as_bytes(c.data.s))
               [] OTHER                  -> Nothing
    IN  IF d.some THEN Ok(Unknown(c.tag, d.v)) ELSE Err(CustomRestTypeError)

\* ------------------------------------------- custom options: the conversion
\* #[derive(Deserialize)] tag: u8
Tags == {0, 200, 255}

SmallIntegers == {0, 1, 255, 256, 65536, 1234567890, 2147483647,
                  -1, -2, -256, -65536, -1234567890}

\* i64::MAX, then unsigned integers above it up to u64::MAX
LargeIntegers == {<<32767, 65535, 65535, 65535>>, <<32768, 0, 0, 0>>,
                  <<32768, 0, 0, 1>>, <<32768, 0, 0, 1024>>, <<32768, 0, 0, 3072>>,
                  <<43690, 43690, 43690, 43690>>, <<65535, 65535, 65535, 65535>>}

\* 1.5 and -2.0
Floats == {<<16376, 0, 0, 0>>, <<49152, 0, 0, 0>>}

Strings == {"", "abc", "é", "€"}

\* The values the data of a custom mapping entry can expand to.
CustomData ==
    {Null, Bool(TRUE), Bool(FALSE)}
        \cup {Integer(n) : n \in SmallIntegers}
        \cup {PosInt(w) : w \in LargeIntegers}
        \cup {NegInt(<<32768, 0, 0, 0>>)}
        \cup {Float(w) : w \in Floats}
        \cup {String(s) : s \in Strings}
        \cup {Sequence, Mapping}

\* DhcpRestMappingItemCustom { tag, kind, item: DhcpRestMappingItem { data, required } }
DhcpRestMappingItemCustom == {[tag |-> t, data |-> d] : t \in Tags, d \in CustomData}

NoOption == Err(None)

CustomIdle ==
    /\ custom = [tag |-> 0, data |-> Null]
    /\ option = NoOption

CustomInit ==
    /\ custom \in DhcpRestMappingItemCustom
    /\ option = NoOption

\* DhcpRestMappingItemCustom::try_from(v).and_then(TryInto::try_into)
TryInto ==
    /\ option = NoOption
    /\ option' = try_into(custom)
    /\ UNCHANGED custom
    /\ CustomFrame

CustomNext == TryInto

\* ---------------------------------------------- REST mapping: the context
\* The Tera context after the queries: variable name -> the text it renders to.
Context ==
    [ ip     |-> "1.2.3.4",
      mask   |-> "255.255.255.0",
      text   |-> "abc",
      number |-> "1234567890",
      list   |-> "[1, 2]",
      broken |-> "{" ]

\* The context of a later packet: another client, another network.
Context2 == [Context EXCEPT !.ip = "5.5.5.5", !.mask = "255.255.0.0"]

Contexts == {Context, Context2}

\* The templates in use: the variable each one prints.
Templates ==
    [ t \in {"{{ ip }}", "{{ mask }}", "{{ text }}", "{{ number }}",
             "{{ list }}", "{{ broken }}", "{{ missing }}",
             "{{ client_hardware_address }}"} |->
        CASE t = "{{ client_hardware_address }}" -> "client_hardware_address"
          [] t = "{{ ip }}"      -> "ip"
          [] t = "{{ mask }}"    -> "mask"
          [] t = "{{ text }}"    -> "text"
          [] t = "{{ number }}"  -> "number"
          [] t = "{{ list }}"    -> "list"
          [] t = "{{ broken }}"  -> "broken"
          [] t = "{{ missing }}" -> "missing" ]

TeraError == "Err_TeraError"

SerdeYamlError == "Err_SerdeYamlError"

\* Result<serde_yaml::Value, DhcpError>
ValueOk(val) == [ok |-> TRUE, value |-> val, err |-> None]

ValueErr(e) == [ok |-> FALSE, value |-> Null, err |-> e]

\* tera::Tera::one_off(s, context, false): text without a tag renders to
\* itself, a variable the context lacks is an error.
one_off(s, ctx) ==
    IF s \notin DOMAIN Templates THEN ValueOk(String(s))
    ELSE IF Templates[s] \in DOMAIN ctx THEN ValueOk(String(ctx[Templates[s]]))
    ELSE ValueErr(TeraError)

\* serde_yaml::from_str(&t) on the rendered text
from_str(t) ==
    CASE t = "1234567890" -> ValueOk(Integer(1234567890))
      [] t = "[1, 2]"     -> ValueOk(Sequence)
      [] t = "{"          -> ValueErr(SerdeYamlError)
      [] t = ""           -> ValueOk(Null)
      [] OTHER            -> ValueOk(String(t))

\* template_values on one value: a string is rendered and read back as YAML,
\* every other scalar is left as it is.
template_value(val, ctx) ==
    IF val.kind # "String" THEN ValueOk(val)
    ELSE LET t == one_off(val.s, ctx)
         IN  IF t.ok THEN from_str(t.value.s) ELSE t

\* ---------------------------------------------- REST mapping: the entries
\* One (key, value) of `mapping`. shape "bare": the value is the data itself;
\* shape "item": the value is a mapping { data, required } (with the tag
\* under a custom key).
Entry(k, shape, required, tag, data) ==
    [key |-> k, shape |-> shape, required |-> required, tag |-> tag, data |-> data]

Keys == {"client_ip_address", "subnet_mask", "custom1"}

\* dhcplib::option::SUBNET_MASK
SubnetMaskCode == 1

CustomTag == 200

DataOf(k) ==
    CASE k = "client_ip_address" -> {"{{ ip }}", "{{ text }}", "{{ missing }}"}
      [] k = "subnet_mask"       -> {"{{ mask }}", "{{ text }}", "{{ missing }}"}
      [] k = "custom1"           -> {"{{ number }}", "{{ list }}", "{{ broken }}", "{{ missing }}"}

Entries(k) ==
    {Entry(k, "bare", FALSE, 0, String(t)) : t \in DataOf(k)}
        \cup {Entry(k, "item", r, IF k = "custom1" THEN CustomTag ELSE 0, String(t)) :
                  r \in BOOLEAN, t \in DataOf(k)}

\* HashMap<String, serde_yaml::Value> in the order its iterator yields it
Mappings ==
    {m \in UNION {[1..n -> UNION {Entries(k) : k \in Keys}] : n \in 0..Cardinality(Keys)} :
        \A i, j \in DOMAIN m : i # j => m[i].key # m[j].key}

\* DhcpRestSourceConfigSchema::is_required, on the value as configured
is_required(entry) == entry.shape = "item" /\ entry.required

\* template_values on the value of an entry: the data is the only string in it
template_values(entry, ctx) == template_value(entry.data, ctx)

\* std::net::Ipv4Addr from a string
parse_ipv4(s) ==
    CASE s = "1.2.3.4"       -> Some(<<1, 2, 3, 4>>)
      [] s = "255.255.255.0" -> Some(<<255, 255, 255, 0>>)
      [] s = "5.5.5.5"       -> Some(<<5, 5, 5, 5>>)
      [] s = "255.255.0.0"   -> Some(<<255, 255, 0, 0>>)
      [] OTHER               -> Nothing

\* serde_from_value::<Ipv4Addr>(v)
ipv4_from_value(val) == IF val.kind = "String" THEN parse_ipv4(val.s) ELSE Nothing

SerdeError == "Err_SerdeError"

\* "client_ip_address": serde_from_value(v) on the whole value of the entry
client_ip_from(entry) ==
    IF entry.shape = "bare" THEN ipv4_from_value(entry.data) ELSE Nothing

\* to_value!(SubnetMask, v) and the custom arm: the value must first read as
\* DhcpRestMappingItem / DhcpRestMappingItemCustom, which a bare value does not
option_from(entry) ==
    IF entry.shape # "item" THEN Err(SerdeError)
    ELSE IF entry.key = "subnet_mask"
    THEN IF ipv4_from_value(entry.data).some
         THEN Ok(Unknown(SubnetMaskCode, ipv4_from_value(entry.data).v))
         ELSE Err(SerdeError)
    ELSE try_into([tag |-> entry.tag, data |-> entry.data])

\* DhcpOptions::upsert
upsert(options, opt) == {o \in options : o.code # opt.code} \cup {opt}

\* Mutant of OnTemplateError: a template failure never ends the phase.
OnTemplateError_never_returns(required) == "continue"

\* match template_result { Err(e) if required => return Err(e), Err(e) => continue }
OnTemplateError(required) == IF required THEN "return" ELSE "continue"

\* Mutant of OnOptionError: an option that cannot be read always ends the phase.
OnOptionError_always_returns(required) == "return"

\* match option { Err(e) if required => return Err(e), Err(e) => log::warn!(..) }
OnOptionError(required) == IF required THEN "return" ELSE "warn"

\* Result<DhcpSourceResult, DhcpError>, with the keys warned about on the way
Mapped(ok, err, ip, options, warned) ==
    [ok |-> ok, err |-> err, client_ip_address |-> ip, options |-> options, warned |-> warned]

\* Mutant of store: the expanded value is dropped, the template stays.
store_nothing(m, i, expanded) == m

\* *value = serde_yaml::from_str(&t)?  on the value of entry i of self.mapping,
\* which the loop holds by &mut
store(m, i, expanded) == [m EXCEPT ![i] = expanded]

\* The for loop of context_to_result from entry i on; m is the mapping, whose
\* values are overwritten by what they expand to.
RECURSIVE context_to_result_loop(_, _, _, _)
context_to_result_loop(m, i, ctx, acc) ==
    IF i > Len(m) THEN [mapping |-> m, res |-> acc]
    ELSE
    LET entry    == m[i]
        required == is_required(entry)
        t        == template_values(entry, ctx)
        expanded == [entry EXCEPT !.data = t.value]
        m1       == store(m, i, expanded)
        ip       == client_ip_from(expanded)
        opt      == option_from(expanded)
        fail(mm, e) == [mapping |-> mm, res |-> Mapped(FALSE, e, <<>>, {}, acc.warned)]
        warn     == [acc EXCEPT !.warned = @ \cup {entry.key}]
    IN  IF ~t.ok
        THEN IF OnTemplateError(required) = "return"
             THEN fail(m, t.err)
             ELSE context_to_result_loop(m, i + 1, ctx, warn)
        ELSE IF entry.key = "client_ip_address"
        THEN IF ip.some
             THEN context_to_result_loop(m1, i + 1, ctx, [acc EXCEPT !.client_ip_address = ip.v])
             ELSE fail(m1, SerdeError)
        ELSE IF opt.ok
        THEN context_to_result_loop(m1, i + 1, ctx,
                                    [acc EXCEPT !.options = upsert(@, opt.v)])
        ELSE IF OnOptionError(required) = "return"
        THEN fail(m1, opt.err)
        ELSE context_to_result_loop(m1, i + 1, ctx, warn)

\* DhcpRestSourceConfigSchema::context_to_result
context_to_result(m, ctx) ==
    context_to_result_loop(m, 1, ctx, Mapped(TRUE, None, <<>>, {}, {}))

\* ------------------------------------------------ REST source: the actions
\* #[serde(default = "DhcpRestConfigSchemaQuery::ssl_verify")] fn ssl_verify() -> bool { true }
ssl_verify_default == TRUE

\* The query as deserialized: `given` is what the configuration says.
Queries ==
    {[given |-> g, ssl_verify |-> IF g = "absent" THEN ssl_verify_default ELSE g = "true"] :
        g \in {"absent", "true", "false"}}

\* reqwest::Client: whether it was built by init, and with which setting
NoClient == [built |-> FALSE, accept_invalid_certs |-> FALSE]

\* The evaluations of the mapping so far: the last one (the mapping it found,
\* its context, its result) and, once there are two, the one before it.
NoEvaluation == [from |-> <<>>, context |-> Context, res |-> Mapped(FALSE, None, <<>>, {}, {})]

NotMapped ==
    [done |-> FALSE, from |-> <<>>, context |-> Context,
     res |-> Mapped(FALSE, None, <<>>, {}, {}),
     again |-> FALSE, first |-> NoEvaluation]

\* DhcpRestConfigSchemaQuery::init:
\* Client::builder().danger_accept_invalid_certs(self.ssl_verify)
init(q) == [built |-> TRUE, accept_invalid_certs |-> q.ssl_verify]

QueryIdle ==
    /\ query = [given |-> "absent", ssl_verify |-> ssl_verify_default]
    /\ http = NoClient

MappingIdle ==
    /\ mapping = <<>>
    /\ mapped = NotMapped

RestIdle == QueryIdle /\ MappingIdle

\* The source after from_config, as far as its mapping goes: any mapping, the
\* client of the query built by init.
RestInit ==
    /\ query = [given |-> "absent", ssl_verify |-> ssl_verify_default]
    /\ http = init(query)
    /\ mapping \in Mappings
    /\ mapped = NotMapped

\* self.config.offer.context_to_result(&c).map(Option::Some), for the first
\* packet of the phase and for the one after it
ContextToResult ==
    /\ http.built
    /\ ~mapped.again
    /\ \E ctx \in Contexts :
         LET r == context_to_result(mapping, ctx)
         IN  /\ mapping' = r.mapping
             /\ mapped' = [done |-> TRUE, from |-> mapping, context |-> ctx, res |-> r.res,
                           again |-> mapped.done,
                           first |-> IF mapped.done
                                     THEN [from |-> mapped.from, context |-> mapped.context,
                                           res |-> mapped.res]
                                     ELSE mapped.first]
    /\ UNCHANGED <<query, http>>
    /\ RestFrame

RestNext == ContextToResult

\* ------------------------------------------------ REST source: the phases
Phases == {"offer", "reserve", "inform", "release", "decline"}

QueryNames == {"a", "b"}

\* DhcpRestConfigSchemaScript, as far as run branches on it
Scripts == [wait : BOOLEAN]

\* DhcpRestSourceConfigSchema: `queries` and `scripts`, in configuration order
\* The `body` a query is configured with, by its name: the body of query a
\* prints the client of the packet, query b has no body.
BodyOf(name) == IF name = "a" THEN String("{{ client_hardware_address }}") ELSE Null

\* DhcpRestConfigSchemaQuery, as far as query reads it
ConfiguredQueries == {[name |-> n, body |-> BodyOf(n)] : n \in QueryNames}

Configs ==
    [queries : UNION {[1..n -> ConfiguredQueries] : n \in 0..MaxQueries},
     scripts : UNION {[1..n -> Scripts] : n \in 0..MaxScripts}]

\* p.client_hardware().to_string() of the packets that come in
Macs == {"aa:bb:cc:dd:ee:01", "aa:bb:cc:dd:ee:02"}

\* The context as template_values reads it for a body: the variable a body
\* prints and its value for the packet in hand.
PacketContext(mac) == [client_hardware_address |-> mac]

\* The keys query inserts from the packet.
PacketKeys == {"client_hardware_address", "client_ip_address", "server_ip_address",
               "client_hostname"}

\* Mutant of Ctx: `results` is not set in the context after a query.
Ctx_without_results(has_results, res) == [keys |-> PacketKeys, results |-> {}]

\* tera::Context: its keys, and under `results` the (name, result) pairs
Ctx(has_results, res) ==
    [keys |-> PacketKeys \cup (IF has_results THEN {"results"} ELSE {}), results |-> res]

\* The results the URL template of a query prints: the URL of query b is
\* "{{ results.a }}", the URL of query a has no tag.
UrlUses(name) == IF name = "b" THEN {"a"} ELSE {}

\* tera::Tera::one_off(&q.url, &context, false) succeeds
url_renders(name, ctx) ==
    \A u \in UrlUses(name) :
        "results" \in ctx.keys /\ \E pair \in ctx.results : pair[1] = u

\* The errors that leave query with `?` after the body was expanded: of the
\* parse of the URL, of json.
QueryErrors == {"Err_UrlParseError", ReqwestError}

\* queries.insert(q.name.clone(), result)
queries_insert(res, name, value) == {pair \in res : pair[1] # name} \cup {<<name, value>>}

\* One step of a phase method, with the context it was made with.
Call(op, n, name, ctx, value) ==
    [op |-> op, n |-> n, name |-> name, keys |-> ctx.keys, results |-> ctx.results,
     value |-> value, body |-> Null]

\* A call of json, with the body it was given.
JsonCallOf(op, n, name, ctx, value, body) == [Call(op, n, name, ctx, value) EXCEPT !.body = body]

\* Mutant of AfterQuery: every phase runs its scripts.
AfterQuery_scripts_everywhere(p) == "scripts"

\* What a phase method does with the context query returned: offer runs the
\* scripts, reserve and inform evaluate the mapping, release and decline return.
AfterQuery(p) ==
    IF p = "offer" THEN "scripts"
    ELSE IF p \in {"reserve", "inform"} THEN "mapping"
    ELSE "return"

\* Mutant of Awaited: run never awaits the task of the child.
Awaited_never(script) == FALSE

\* if self.wait { j.await??; }
Awaited(script) == script.wait

PhaseIdle ==
    /\ config = [queries |-> <<>>, scripts |-> <<>>]
    /\ phase = None
    /\ packet = None
    /\ at = "from_config"
    /\ qi = 1
    /\ si = 1
    /\ context = Ctx(FALSE, {})
    /\ children = <<>>
    /\ calls = <<>>
    /\ phase_ret = "running"

\* The configuration as deserialized by from_config, before the queries' init.
\* The ssl_verify of the query and the queries and scripts of the phase do not
\* meet in any step: a phase with queries or scripts is taken with the default.
PhaseInit ==
    /\ config \in Configs
    /\ phase = None
    /\ packet = None
    /\ at = "from_config"
    /\ qi = 1
    /\ si = 1
    /\ context = Ctx(FALSE, {})
    /\ children = <<>>
    /\ calls = <<>>
    /\ phase_ret = "running"
    /\ query \in Queries
    /\ (query.given # "absent" => config = [queries |-> <<>>, scripts |-> <<>>])
    /\ http = NoClient
    /\ MappingIdle

\* from_config: query.init()? for the queries of every phase
QueryInit ==
    /\ at = "from_config"
    /\ ~http.built
    /\ http' = init(query)
    /\ at' = "idle"
    /\ UNCHANGED <<query, mapping, mapped>>
    /\ UNCHANGED <<config, phase, packet, qi, si, context, children, calls, phase_ret>>
    /\ UNCHANGED <<serverVars, cacheVars, customVars>>

\* offer / reserve / inform / release / decline is called with a packet:
\* Self::query starts with a new Context holding the four keys of the packet.
PhaseStart ==
    /\ at \in {"idle", "returned"}
    /\ \E p \in Phases : phase' = p
    /\ \E mac \in Macs : packet' = mac
    /\ at' = "query"
    /\ qi' = 1
    /\ si' = 1
    /\ context' = Ctx(FALSE, {})
    /\ children' = [i \in 1..Len(config.scripts) |-> "none"]
    /\ calls' = <<>>
    /\ phase_ret' = "running"
    /\ UNCHANGED config
    /\ PhaseFrame

\* One pass of `for q in &mut config.queries`: the URL is expanded with the
\* context, then the body, in place (template_values(&mut q.body, ..)), json is
\* called with the body as it is stored now, the result is inserted under the
\* query's name and `results` is set anew in the context; each `?` returns.
QueryRun ==
    /\ at = "query" /\ qi <= Len(config.queries)
    /\ LET q == config.queries[qi]
           t == template_value(q.body, PacketContext(packet))
           templated == [config EXCEPT !.queries[qi].body = t.value]
       IN  \E response \in JsonValues \cup QueryErrors :
             IF ~url_renders(q.name, context)
             THEN /\ calls' = Append(calls, Call("query_failed", qi, q.name, context, TeraError))
                  /\ phase_ret' = TeraError
                  /\ at' = "returned"
                  /\ UNCHANGED <<qi, context, config>>
             ELSE IF ~t.ok
             THEN /\ calls' = Append(calls, Call("query_failed", qi, q.name, context, t.err))
                  /\ phase_ret' = t.err
                  /\ at' = "returned"
                  /\ UNCHANGED <<qi, context, config>>
             ELSE IF response \in QueryErrors
             THEN /\ calls' = Append(calls, Call("query_failed", qi, q.name, context, response))
                  /\ phase_ret' = response
                  /\ at' = "returned"
                  /\ config' = templated
                  /\ UNCHANGED <<qi, context>>
             ELSE /\ calls' = Append(calls, JsonCallOf("query", qi, q.name, context, response,
                                                       t.value))
                  /\ context' = Ctx(TRUE, queries_insert(context.results, q.name, response))
                  /\ qi' = qi + 1
                  /\ config' = templated
                  /\ UNCHANGED <<at, phase_ret>>
    /\ UNCHANGED <<phase, packet, si, children>>
    /\ PhaseFrame

\* Self::query returns Ok(context); what the phase method does next
QueriesDone ==
    /\ at = "query" /\ qi > Len(config.queries)
    /\ IF AfterQuery(phase) = "return"
       THEN at' = "returned" /\ phase_ret' = "Ok"
       ELSE at' = AfterQuery(phase) /\ UNCHANGED phase_ret
    /\ UNCHANGED <<config, phase, packet, qi, si, context, children, calls>>
    /\ PhaseFrame

\* script.run(&c).await? up to the spawn: exec and args are expanded (`?`),
\* the command is spawned (an error is logged and returned), the task that
\* waits for the child is spawned, and run awaits it if `wait` is set.
ScriptRun ==
    /\ at = "scripts" /\ si <= Len(config.scripts)
    /\ \E outcome \in {"spawned", TeraError, "Err_IoError"} :
         IF outcome = "spawned"
         THEN /\ calls' = Append(calls, Call("script", si, None, context, outcome))
              /\ children' = [children EXCEPT ![si] = "running"]
              /\ IF Awaited(config.scripts[si])
                 THEN at' = "wait" /\ UNCHANGED si
                 ELSE si' = si + 1 /\ UNCHANGED at
              /\ UNCHANGED phase_ret
         ELSE /\ calls' = Append(calls, Call("script_failed", si, None, context, outcome))
              /\ phase_ret' = outcome
              /\ at' = "returned"
              /\ UNCHANGED <<si, children>>
    /\ UNCHANGED <<config, phase, packet, qi, context>>
    /\ PhaseFrame

\* child.wait_with_output() resolves inside the timeout: the child has ended
ChildExit ==
    /\ \E i \in DOMAIN children :
         /\ children[i] = "running"
         /\ children' = [children EXCEPT ![i] = "exited"]
    /\ UNCHANGED <<config, phase, packet, at, qi, si, context, calls, phase_ret>>
    /\ PhaseFrame

\* tokio::time::timeout(..) elapses first: the task logs it and ends
ChildTimeout ==
    /\ \E i \in DOMAIN children :
         /\ children[i] = "running"
         /\ children' = [children EXCEPT ![i] = "timed_out"]
    /\ UNCHANGED <<config, phase, packet, at, qi, si, context, calls, phase_ret>>
    /\ PhaseFrame

\* j.await?? returns: the task of the child has ended with Ok(())
ScriptJoined ==
    /\ at = "wait"
    /\ children[si] \in {"exited", "timed_out"}
    /\ at' = "scripts"
    /\ si' = si + 1
    /\ UNCHANGED <<config, phase, packet, qi, context, children, calls, phase_ret>>
    /\ PhaseFrame

\* the for loop over the scripts of offer ends
ScriptsDone ==
    /\ at = "scripts" /\ si > Len(config.scripts)
    /\ at' = "mapping"
    /\ UNCHANGED <<config, phase, packet, qi, si, context, children, calls, phase_ret>>
    /\ PhaseFrame

\* self.config.<phase>.context_to_result(&c).map(Option::Some)
PhaseMapping ==
    /\ at = "mapping"
    /\ \E outcome \in {"Ok", SerdeError} :
         /\ calls' = Append(calls, Call("context_to_result", 0, None, context, outcome))
         /\ phase_ret' = outcome
    /\ at' = "returned"
    /\ UNCHANGED <<config, phase, packet, qi, si, context, children>>
    /\ PhaseFrame

PhaseNext ==
    \/ QueryInit
    \/ PhaseStart
    \/ QueryRun
    \/ QueriesDone
    \/ ScriptRun
    \/ ChildExit
    \/ ChildTimeout
    \/ ScriptJoined
    \/ ScriptsDone
    \/ PhaseMapping

\* ---------------------------------------------------------- specifications
Init == ServerInit /\ CacheIdle /\ CustomIdle /\ RestIdle /\ PhaseIdle

Next == ServerNext

Spec == Init /\ [][Next]_vars

InitCache == ServerIdle /\ CacheInit /\ CustomIdle /\ RestIdle /\ PhaseIdle

SpecCache == InitCache /\ [][CacheNext]_vars

InitCustom == ServerIdle /\ CacheIdle /\ CustomInit /\ RestIdle /\ PhaseIdle

SpecCustom == InitCustom /\ [][CustomNext]_vars

InitRest == ServerIdle /\ CacheIdle /\ CustomIdle /\ RestInit /\ PhaseIdle

SpecRest == InitRest /\ [][RestNext]_vars

InitPhase == ServerIdle /\ CacheIdle /\ CustomIdle /\ PhaseInit

SpecPhase == InitPhase /\ [][PhaseNext]_vars

\* ------------------------------------------------- server: reading the trace
\* The handler task of the datagram in hand has returned.
Handled == pc = "join"

Networks == 1..Len(local_networks)

PhaseOps == {"offer", "reserve", "inform"}

\* The phase calls that returned Ok(Some(result)), and those that did not.
Hits == {i \in DOMAIN trace : trace[i].op \in PhaseOps /\ trace[i].type = "Some"}

Misses == {i \in DOMAIN trace : trace[i].op \in PhaseOps /\ trace[i].type \in {"None", "Err"}}

\* Every source was asked and returned None or an error.
AllMissed == Cardinality(Misses) = Len(sources)

SendEvents == {i \in DOMAIN trace : trace[i].op = "send_to"}

\* The number of packets of a type that went out to network n.
SendsTo(type, n) ==
    Cardinality({i \in SendEvents : trace[i].type = type /\ trace[i].net = n})

\* The map still held an image for the IP of network n when its turn came,
\* and no send_to failed at or before it.
Delivered(n) ==
    /\ ~\E i \in DOMAIN trace : trace[i].op = "skip" /\ trace[i].net = n
    /\ ~\E i \in DOMAIN trace : trace[i].op = "send_failed" /\ trace[i].net <= n

\* Source s got packet_received and, right after it, the phase call of the message.
Notified(s) ==
    \E i \in DOMAIN trace :
        /\ trace[i].op = "packet_received" /\ trace[i].src = s
        /\ i < Len(trace)
        /\ trace[i + 1].op = PhaseMethod(message) /\ trace[i + 1].src = s

\* ------------------------------------------------------------------ claims
\* C1 as stated: when a REQUEST is handled and no source yields a result,
\* exactly one NAK is sent to each local outbound network and no ACK is sent.
C1_ExactlyOneNakPerNetwork ==
    (Handled /\ message = "Request" /\ AllMissed) =>
        \A n \in Networks : SendsTo("Nak", n) = 1 /\ SendsTo("Ack", n) = 0

\* C1 amended: when a REQUEST is handled and no source yields a result, no ACK
\* and no OFFER is sent, and a network gets exactly one NAK if it has a byte
\* image and no send_to failed at or before it, and no NAK otherwise.
C1_NakPerDeliveredNetwork ==
    (Handled /\ message = "Request" /\ AllMissed) =>
        /\ \A i \in SendEvents : trace[i].type = "Nak" /\ trace[i].ip = UNSPECIFIED
        /\ \A n \in Networks : SendsTo("Nak", n) = (IF Delivered(n) THEN 1 ELSE 0)
        /\ ret = (IF \E i \in DOMAIN trace : trace[i].op = "send_failed"
                  THEN "Err_IoError" ELSE "Ok")

C1_Witness ==
    /\ Handled /\ message = "Request" /\ AllMissed
    /\ Len(sources) >= 2 /\ Len(local_networks) >= 2
    /\ \E i \in Misses : trace[i].type = "Err"
    /\ \E i \in Misses : trace[i].type = "None"
    /\ \A n \in Networks : SendsTo("Nak", n) = 1

\* C2 as stated: when a DISCOVER is handled and at least one source's offer
\* returns Some(result), exactly one OFFER is sent to each local outbound network.
C2_ExactlyOneOfferPerNetwork ==
    (Handled /\ message = "Discover" /\ Hits # {}) =>
        \A n \in Networks : SendsTo("Offer", n) = 1

\* C2 amended: when a DISCOVER is handled and a source's offer returns
\* Some(result) with a client IP and a readable lease time, a network gets
\* exactly one OFFER if it has a byte image and no send_to failed at or before
\* it, and no OFFER otherwise; nothing but OFFERs is sent.
C2_OfferPerDeliveredNetwork ==
    (Handled /\ message = "Discover" /\ result.some
        /\ result.client_ip_address # None /\ result.lease_time) =>
        /\ \A i \in SendEvents : trace[i].type = "Offer"
        /\ \A n \in Networks : SendsTo("Offer", n) = (IF Delivered(n) THEN 1 ELSE 0)

C2_Witness ==
    /\ Handled /\ message = "Discover" /\ ret = "Ok"
    /\ result.some /\ result.client_ip_address # None /\ result.lease_time
    /\ Len(local_networks) >= 2
    /\ \A n \in Networks : SendsTo("Offer", n) = 1

\* C3: when a DISCOVER or an INFORM is handled and no source yields a result,
\* no packet at all is sent for it: no send is attempted and no response
\* packet is built, and the handler returns Ok.
C3_NoHitNoPacket ==
    (message \in {"Discover", "Inform"} /\ Hits = {}) =>
        /\ \A i \in DOMAIN trace : trace[i].op \notin {"send_to", "send_failed", "skip"}
        /\ send_packet = NoPacket
        /\ pc # "nak"
        /\ (Handled /\ AllMissed) => ret = "Ok"

C3_Witness ==
    /\ Handled /\ message = "Inform" /\ Hits = {}
    /\ Len(sources) >= 2 /\ Len(local_networks) >= 1
    /\ Cardinality(Misses) = Len(sources)
    /\ \E i \in Misses : trace[i].type = "Err"
    /\ SendEvents = {}

\* C4: every OFFER and every ACK sent carries the client IP its source
\* returned; a result without client_ip_address makes the handler return
\* ClientIpAddressMissing right away, with no packet built and nothing sent.
C4_ClientIpRequired ==
    /\ \A i \in SendEvents : trace[i].type \in {"Offer", "Ack"} =>
            /\ trace[i].ip \in ClientIps
            /\ \E h \in Hits : /\ h < i
                               /\ trace[h].src = trace[i].src
                               /\ trace[h].ip = trace[i].ip
    /\ \A h \in Hits : trace[h].ip = None =>
            /\ ret = "Err_ClientIpAddressMissing"
            /\ pc \in {"join", "recv"}
            /\ h = Len(trace)
            /\ send_packet = NoPacket

C4_Witness ==
    /\ Handled /\ message = "Request" /\ ret = "Err_ClientIpAddressMissing"
    /\ Len(local_networks) >= 1
    /\ \E h \in Hits : trace[h].ip = None /\ trace[h].src = 2
    /\ SendEvents = {}

\* C5: in the query phases the sources are tried in configuration order, each
\* with packet_received right before its phase call; once a source returns
\* Some(result) no other source is called, everything sent carries that
\* source's result, and no network gets more than one packet.
C5_FirstSomeWins ==
    message \in QueryPhases =>
        /\ \A i \in DOMAIN trace : trace[i].op = "packet_received" =>
              /\ trace[i].src = Cardinality({j \in 1..i : trace[j].op = "packet_received"})
              /\ i < Len(trace) =>
                    trace[i + 1].op = PhaseMethod(message) /\ trace[i + 1].src = trace[i].src
        /\ \A i \in DOMAIN trace : trace[i].op \in PhaseOps =>
              /\ i > 1
              /\ trace[i - 1].op = "packet_received" /\ trace[i - 1].src = trace[i].src
        /\ \A h \in Hits : \A j \in DOMAIN trace : j > h =>
              /\ trace[j].op \notin PhaseOps \cup {"packet_received"}
              /\ trace[j].src = trace[h].src
              /\ trace[j].op = "send_to" => trace[j].ip = trace[h].ip
        /\ \A i \in SendEvents : trace[i].type \in {"Offer", "Ack"} => \E h \in Hits : h < i
        /\ \A n \in Networks : Cardinality({i \in SendEvents : trace[i].net = n}) <= 1

C5_Witness ==
    /\ Handled /\ message = "Discover" /\ ret = "Ok"
    /\ Len(sources) >= 2 /\ Len(local_networks) >= 2
    /\ \E h \in Hits : trace[h].src = 1
    /\ \A n \in Networks : SendsTo("Offer", n) = 1

\* C6: in the query phases an error returned by a source's phase method is
\* logged at error level and does not end the handler: the next source in
\* the list, if any, is called, and the error is never the handler's result.
C6_SourceErrorContinues ==
    message \in QueryPhases =>
        /\ ret # "Err_Source"
        /\ \A i \in DOMAIN trace : (trace[i].op \in PhaseOps /\ trace[i].type = "Err") =>
              /\ i < Len(trace)
              /\ trace[i + 1].op = "log_error" /\ trace[i + 1].src = trace[i].src
              /\ (Handled /\ trace[i].src < Len(sources)) => Notified(trace[i].src + 1)
              /\ trace[i].src < Len(sources) =>
                    \/ Notified(trace[i].src + 1)
                    \/ pc \in {"loop", "phase"} /\ idx = trace[i].src + 1

C6_Witness ==
    /\ Handled /\ message = "Discover" /\ ret = "Ok"
    /\ \E i \in Misses : trace[i].type = "Err" /\ trace[i].src = 1
    /\ \E h \in Hits : trace[h].src = 2
    /\ Len(local_networks) >= 1
    /\ \A n \in Networks : SendsTo("Offer", n) = 1

\* C7 as stated: when a RELEASE or a DECLINE is handled, every configured
\* source receives packet_received followed by release / decline, whatever
\* the calls on the sources before it returned.
C7_EverySourceNotified ==
    (Handled /\ message \in NotifyPhases /\ ret # "Panic") =>
        \A s \in 1..Len(sources) : Notified(s)

\* C8: the type of a packet sent is fixed by the incoming type: a DISCOVER
\* gives only OFFERs, a REQUEST only ACKs or only NAKs, an INFORM only ACKs, a
\* RELEASE or DECLINE nothing; an incoming OFFER, ACK or NAK calls no source,
\* sends nothing and returns Ok.
C8_ResponseTypeFixed ==
    LET types == {trace[i].type : i \in SendEvents}
    IN  /\ message = "Discover" => types \subseteq {"Offer"}
        /\ message = "Request" => (types \subseteq {"Ack"} \/ types \subseteq {"Nak"})
        /\ message = "Inform" => types \subseteq {"Ack"}
        /\ message \in NotifyPhases =>
              \A i \in DOMAIN trace : trace[i].op \notin {"send_to", "send_failed", "skip"}
        /\ message \in Discarded =>
              /\ trace = <<>>
              /\ pc \notin {"loop", "phase", "packet_sending", "send", "packet_sent", "nak"}
              /\ ~locked
              /\ (Handled /\ AllMissed) => ret = "Ok"

C8_Witness ==
    /\ Handled /\ message = "Request" /\ ret = "Ok"
    /\ Misses # {} /\ Hits # {}
    /\ Len(local_networks) >= 2
    /\ \A n \in Networks : SendsTo("Ack", n) = 1

\* C9: for a query with an expiration above 0, a json call made while the
\* last response fetched for its (method, URL) is no older than the expiration
\* returns that same JSON without an HTTP request, so the fetch stays the one
\* HTTP request made for the key; a call made later performs an HTTP request.
C9_CachedWithinExpiration ==
    (expiration > 0 /\ last.called /\ last.prev.some) =>
        /\ last.at <= last.prev.time + expiration =>
              /\ ~last.http
              /\ last.ret = last.prev.data
        /\ last.at > last.prev.time + expiration => last.http

C9_Witness ==
    /\ expiration > 0 /\ last.called /\ last.prev.some
    /\ last.at > last.prev.time /\ last.at <= last.prev.time + expiration
    /\ ~last.http /\ last.ret = last.prev.data
    /\ json_calls = 2 /\ http_requests = 1

\* C10: with an expiration of 0 the cache stays empty whatever calls are
\* made: every json call performs an HTTP request of its own and none is
\* answered from the cache.
C10_ZeroExpirationNeverCaches ==
    expiration = 0 =>
        /\ cache = EmptyCache
        /\ http_requests = json_calls
        /\ last.called => (last.http /\ ~last.evicted)

C10_Witness ==
    /\ expiration = 0 /\ json_calls = 2 /\ http_requests = 2
    /\ last.called /\ last.prev.some
    /\ last.at = last.prev.time
    /\ last.ret # ReqwestError /\ last.ret # last.prev.data

\* C11: a json call is answered from the cache only by an entry of its key
\* whose age, counted from the timestamp taken when the entry was inserted,
\* is at most the expiration; the call then returns that entry's data. An
\* older entry is never returned.
C11_CachedOnlyWhileFresh ==
    (last.called /\ ~last.http) =>
        /\ last.key \in DOMAIN cache
        /\ cache[last.key].time = last.prev.time
        /\ last.at - cache[last.key].time <= expiration
        /\ last.ret = cache[last.key].data

C11_Witness ==
    /\ last.called /\ ~last.http
    /\ last.key \in DOMAIN cache
    /\ last.at - cache[last.key].time = expiration
    /\ now > last.at + expiration

\* C12: a json call whose HTTP request fails returns the error after one
\* request, without a retry, and leaves no entry for its key in the cache.
C12_FailedRequestNotCached ==
    (last.called /\ last.ret = ReqwestError) =>
        /\ last.http
        /\ last.requests = 1
        /\ last.key \notin DOMAIN cache

C12_Witness ==
    /\ expiration > 0 /\ last.called /\ last.ret = ReqwestError
    /\ last.prev.some /\ last.evicted
    /\ last.key \notin DOMAIN cache
    /\ json_calls = 2 /\ http_requests = 2

\* C18: whatever way the handler of a datagram ends, with Ok, with an error
\* or with a panic, the receive loop joins it and goes back to receiving the
\* next datagram; the loop never stops at the join.
C18_LoopSurvivesHandler ==
    /\ [](pc = "join" => ENABLED Join)
    /\ [][pc = "join" => (pc' = "recv" /\ ret' = ret)]_vars
    /\ [](pc = "recv" => ENABLED Recv)

C18_Witness ==
    /\ pc = "recv" /\ ret = "Panic" /\ ~locked
    /\ \E i \in DOMAIN trace : trace[i].op = "log_error" /\ trace[i].type = "JoinError"

\* C19 as stated: when the handling of a packet has ended with an error, the
\* receive loop has logged that error at error level on joining the handler.
C19_HandlerErrorsLogged ==
    (pc = "recv" /\ ret \notin {"Ok", "running"}) =>
        \E i \in DOMAIN trace : trace[i].op = "log_error" /\ trace[i].src = 0

\* C16: the conversion of a custom mapping entry gives Unknown(tag, bytes) with
\* no bytes for null, [1] / [0] for true / false, the eight bytes of the
\* two's complement, most significant first, for an integer that fits i64
\* (1234567890 under tag 200 gives [0,0,0,0,73,150,2,210]), the UTF-8 bytes
\* for a string, and CustomRestTypeError for a sequence or a mapping.
C16_CustomEncoding ==
    option # NoOption =>
        /\ custom.data.kind = "Null" => option = Ok(Unknown(custom.tag, <<>>))
        /\ custom.data = Bool(TRUE) => option = Ok(Unknown(custom.tag, <<1>>))
        /\ custom.data = Bool(FALSE) => option = Ok(Unknown(custom.tag, <<0>>))
        /\ (custom.data.kind = "Number" /\ custom.data.n # "Float"
              /\ (custom.data.n = "PosInt" => custom.data.bits[1] < 32768)) =>
              /\ option.ok /\ option.v.code = custom.tag
              /\ Len(option.v.bytes) = 8
              /\ \A i \in 1..8 : option.v.bytes[i] \in 0..255
              /\ \A i \in 1..4 :
                    256 * option.v.bytes[2 * i - 1] + option.v.bytes[2 * i] = custom.data.bits[i]
        /\ custom.data = Integer(1234567890) =>
              option = Ok(Unknown(custom.tag, <<0, 0, 0, 0, 73, 150, 2, 210>>))
        /\ custom.data = Integer(256) =>
              option = Ok(Unknown(custom.tag, <<0, 0, 0, 0, 0, 0, 1, 0>>))
        /\ custom.data = Integer(-1) =>
              option = Ok(Unknown(custom.tag, <<255, 255, 255, 255, 255, 255, 255, 255>>))
        /\ custom.data = Integer(-256) =>
              option = Ok(Unknown(custom.tag, <<255, 255, 255, 255, 255, 255, 255, 0>>))
        /\ custom.data = Integer(-1234567890) =>
              option = Ok(Unknown(custom.tag, <<255, 255, 255, 255, 182, 105, 253, 46>>))
        /\ custom.data = String("") => option = Ok(Unknown(custom.tag, <<>>))
        /\ custom.data = String("abc") => option = Ok(Unknown(custom.tag, <<97, 98, 99>>))
        /\ custom.data = String("é") => option = Ok(Unknown(custom.tag, <<195, 169>>))
        /\ custom.data = String("€") => option = Ok(Unknown(custom.tag, <<226, 130, 172>>))
        /\ custom.data.kind \in {"Sequence", "Mapping"} => option = Err(CustomRestTypeError)

C16_Witness ==
    /\ custom = [tag |-> 200, data |-> Integer(1234567890)]
    /\ option = Ok(Unknown(200, <<0, 0, 0, 0, 73, 150, 2, 210>>))

\* C17 as stated: custom data that is an unsigned integer above the range of
\* i64 is converted to the eight bytes of that unsigned integer, most
\* significant first.
C17_UnsignedAboveI64 ==
    (option # NoOption /\ custom.data.kind = "Number"
        /\ custom.data.n = "PosInt" /\ custom.data.bits[1] >= 32768) =>
        /\ option.ok /\ option.v.code = custom.tag
        /\ Len(option.v.bytes) = 8
        /\ \A i \in 1..4 :
              256 * option.v.bytes[2 * i - 1] + option.v.bytes[2 * i] = custom.data.bits[i]

\* ------------------------------------------- REST mapping: reading the outcome
\* The entries of the mapping context_to_result was called on.
Configured == {mapped.from[i] : i \in DOMAIN mapped.from}

TemplateFails(entry) == ~template_values(entry, mapped.context).ok

Expanded(entry) == [entry EXCEPT !.data = template_values(entry, mapped.context).value]

DeserializationFails(entry) ==
    /\ ~TemplateFails(entry)
    /\ IF entry.key = "client_ip_address"
       THEN ~client_ip_from(Expanded(entry)).some
       ELSE ~option_from(Expanded(entry)).ok

\* The entry cannot be produced: its template or its deserialization fails.
Fails(entry) == TemplateFails(entry) \/ DeserializationFails(entry)

\* The options of the entries that can be produced.
Successful ==
    {option_from(Expanded(entry)).v :
        entry \in {x \in Configured : x.key # "client_ip_address" /\ ~Fails(x)}}

\* C13 as stated: when every entry that fails is one not marked required, the
\* phase returns a result whose options are those of the entries that did
\* not fail.
C13_OptionalFailuresSkipped ==
    (mapped.done /\ \A entry \in Configured : Fails(entry) => ~is_required(entry)) =>
        /\ mapped.res.ok
        /\ mapped.res.options = Successful

\* C13 amended: when every entry that fails is an option entry (not
\* client_ip_address) not marked required, the phase returns a result: its
\* options are those of the entries that did not fail, the failed entries
\* are warned about and left out, and the client IP is the one configured.
C13_OptionalOptionFailuresSkipped ==
    (mapped.done /\ \A entry \in Configured :
          Fails(entry) => (~is_required(entry) /\ entry.key # "client_ip_address")) =>
        /\ mapped.res.ok
        /\ mapped.res.options = Successful
        /\ mapped.res.warned = {entry.key : entry \in {x \in Configured : Fails(x)}}
        /\ \A entry \in Configured : entry.key = "client_ip_address" =>
              mapped.res.client_ip_address = client_ip_from(Expanded(entry)).v
        /\ mapped.res.client_ip_address # <<>> =>
              \E entry \in Configured : entry.key = "client_ip_address"

C13_Witness ==
    /\ mapped.done /\ mapped.res.ok
    /\ Len(mapped.from) = 3
    /\ \E entry \in Configured : entry.key = "subnet_mask" /\ DeserializationFails(entry)
    /\ mapped.res.warned = {"subnet_mask"}
    /\ mapped.res.options = {Unknown(200, <<0, 0, 0, 0, 73, 150, 2, 210>>)}
    /\ mapped.res.client_ip_address = <<1, 2, 3, 4>>

\* C14: when an entry marked required: true fails, in its template or in
\* its deserialization, the phase returns an error and no result.
C14_RequiredFailureFatal ==
    (mapped.done /\ \E entry \in Configured : is_required(entry) /\ Fails(entry)) =>
        /\ ~mapped.res.ok
        /\ mapped.res.err \in {TeraError, SerdeYamlError, SerdeError, CustomRestTypeError}
        /\ mapped.res.options = {}
        /\ mapped.res.client_ip_address = <<>>

C14_Witness ==
    /\ mapped.done /\ ~mapped.res.ok /\ mapped.res.err = TeraError
    /\ Len(mapped.from) = 3
    /\ \E entry \in Configured :
          /\ is_required(entry) /\ TemplateFails(entry)
          /\ \A other \in Configured \ {entry} : ~Fails(other)

\* C15 as stated: a client_ip_address entry that cannot be produced, by a
\* template failure or by a value that is not an IPv4 address, makes the
\* phase fail whether or not it is marked required.
C15_ClientIpFailureFatal ==
    (mapped.done /\ \E entry \in Configured :
          entry.key = "client_ip_address" /\ Fails(entry)) =>
        ~mapped.res.ok

\* C20 as stated: the client built by init accepts invalid certificates
\* exactly when ssl_verify is false; with ssl_verify true, the default, it
\* verifies them.
C20_TlsVerifiedUnlessDisabled ==
    http.built => (http.accept_invalid_certs <=> ~query.ssl_verify)

\* C25: a json call that finds an expired entry for its key goes on to the
\* HTTP request with the entry removed: it returns what the request gives,
\* and afterwards the key maps to the response just fetched, stamped on its
\* arrival, or to nothing when the request failed. At all times an entry of
\* the cache is the response fetched last for its URL, so no later call can
\* be served the expired value.
C25_ExpiredEntryEvicted ==
    /\ (last.called /\ last.evicted) =>
          /\ last.http
          /\ last.prev.some /\ last.at > last.prev.time + expiration
          /\ IF last.ret = ReqwestError
             THEN last.key \notin DOMAIN cache
             ELSE /\ last.key \in DOMAIN cache
                  /\ cache[last.key] = CacheItem(last.ret, fetched[last.key.url].time)
                  /\ cache[last.key].time >= last.at
    /\ \A key \in DOMAIN cache :
          /\ fetched[key.url].some
          /\ cache[key] = CacheItem(fetched[key.url].data, fetched[key.url].time)
    /\ (last.called /\ ~last.http) => last.at <= cache[last.key].time + expiration

C25_Witness ==
    /\ last.called /\ last.evicted /\ last.ret = ReqwestError
    /\ last.prev.some /\ last.at > last.prev.time + expiration
    /\ last.key \notin DOMAIN cache
    /\ json_calls = 2

\* C30: a json call made within the expiration of the entry of its (method,
\* URL) is answered with the stored response and without an HTTP request
\* whatever its body is, the body of the call that filled the entry or another.
C30_HitIgnoresBody ==
    /\ (last.called /\ expiration > 0 /\ last.prev.some
          /\ last.at <= last.prev.time + expiration) =>
          /\ ~last.http /\ last.requests = 0
          /\ last.ret = last.prev.data
          /\ fetched[last.key.url].body = last.prev.body
    /\ \A url \in Urls : \A b1, b2 \in Bodies :
          cached(cache, expiration, now, CacheKey(url, method)) =>
              json(cache, expiration, now, method, url, b1, None, 0)
                  = json(cache, expiration, now, method, url, b2, None, 0)

C30_Witness ==
    /\ last.called /\ ~last.http /\ last.prev.some
    /\ last.body # last.prev.body
    /\ last.ret = last.prev.data
    /\ json_calls = 2 /\ http_requests = 1

\* ------------------------------------------------------ claims: Server::send
\* The server IPs the map of the library held an image for, read off the
\* images the loop took out of it (all of them once the loop has run through).
Returned == {trace[i].image : i \in {j \in DOMAIN trace : trace[j].op \in {"send_to", "send_failed"}}}

\* Server::send ran through all the networks: no send_to failed.
SendRanThrough ==
    /\ Handled
    /\ \E i \in DOMAIN trace : trace[i].op \in {"send_to", "skip"}
    /\ ~\E i \in DOMAIN trace : trace[i].op = "send_failed"

\* C21 as stated: Server::send sends to each network's directed broadcast
\* address the image built for that network's own IP, and skips, without an
\* error and without effect on the later networks, exactly the networks for
\* whose IP the library returned no image.
C21_EachNetworkServed ==
    SendRanThrough =>
        /\ ret = "Ok"
        /\ \A n \in Networks :
              LET a    == local_networks[n]
                  sent == {i \in SendEvents : trace[i].net = n}
              IN  IF a.ip \in Returned
                  THEN /\ Cardinality(sent) = 1
                       /\ \A i \in sent : trace[i].dest = broadcast(a) /\ trace[i].image = a.ip
                  ELSE /\ sent = {}
                       /\ \E i \in DOMAIN trace : trace[i].op = "skip" /\ trace[i].net = n

\* --------------------------------------------- claims: lock and receive loop
\* The calls a handler makes on a source.
SourceOps == {"packet_received", "offer", "reserve", "inform", "release", "decline",
              "packet_sending", "packet_sent"}

\* The handler is between its first and its last call on a source.
InSourceLoop == pc \in {"loop", "phase", "packet_sending", "send", "packet_sent"}

\* C26: every call of a handler on a source is made while the handler holds
\* the lock over the source list, and the lock is held without a gap from the
\* first of these calls to the last, by the one handler there is.
C26_SourceOpsUnderLock ==
    /\ [](InSourceLoop <=> locked)
    /\ [](locked => handlers = 1)
    /\ [][(Len(trace') > Len(trace) /\ trace'[Len(trace) + 1].op \in SourceOps)
             => (locked /\ InSourceLoop)]_vars

C26_Witness ==
    /\ pc = "packet_sent" /\ locked /\ idx = 2
    /\ \E i \in DOMAIN trace : trace[i].op = "packet_received" /\ trace[i].src = 1
    /\ \E i \in DOMAIN trace : trace[i].op = "packet_sending" /\ trace[i].src = 2
    /\ SendEvents # {}

\* C27: the receive loop receives a datagram only when the handler task it
\* spawned before has been joined, so there is never more than one handler
\* and the datagram in hand is replaced only when its handler is done.
C27_OneHandlerAtATime ==
    /\ [](handlers \in {0, 1} /\ (handlers = 0 <=> pc = "recv"))
    /\ [][(message' # message \/ handlers' > handlers)
             => (handlers = 0 /\ handlers' = 1 /\ pc = "recv")]_vars

C27_Witness ==
    /\ pc = "recv" /\ handlers = 0
    /\ message = "Discover" /\ ret = "Ok"
    /\ \E i \in DOMAIN trace : trace[i].op = "packet_sent"

\* C28: on every source tried packet_received comes right before the phase
\* method; on the source whose result is used packet_sending comes next, then
\* the send of the response, then packet_sent, which is called last and only
\* when no send_to of the response failed.
C28_HookOrder ==
    /\ \A i \in DOMAIN trace :
          /\ trace[i].op \in {"offer", "reserve", "inform", "release", "decline"} =>
                /\ i > 1
                /\ trace[i - 1].op = "packet_received" /\ trace[i - 1].src = trace[i].src
          /\ trace[i].op = "packet_received" =>
                \A j \in 1..(i - 1) : trace[j].src # trace[i].src
          /\ trace[i].op = "packet_sending" =>
                /\ i > 1 /\ i - 1 \in Hits /\ trace[i - 1].src = trace[i].src
          /\ (trace[i].op \in {"send_to", "send_failed", "skip"} /\ trace[i].type # "Nak") =>
                /\ \E j \in 1..(i - 1) :
                      trace[j].op = "packet_sending" /\ trace[j].src = trace[i].src
                /\ ~\E j \in 1..(i - 1) : trace[j].op = "packet_sent"
          /\ trace[i].op = "packet_sent" =>
                /\ i = Len(trace)
                /\ \E j \in 1..(i - 1) :
                      /\ trace[j].op = "packet_sending" /\ trace[j].src = trace[i].src
                      /\ \A k \in (j + 1)..(i - 1) :
                            /\ trace[k].op \in {"send_to", "skip"}
                            /\ trace[k].net = k - j
                      /\ i - j - 1 = Len(local_networks)
    /\ (Handled /\ ret = "Ok" /\ Hits # {}) =>
          trace[Len(trace)].op = "packet_sent"

C28_Witness ==
    /\ Handled /\ ret = "Ok" /\ idx = 2
    /\ Len(local_networks) = 2
    /\ Len(trace) = 8
    /\ trace[4].op = "offer" /\ trace[4].type = "Some"
    /\ trace[5].op = "packet_sending"
    /\ trace[6].op = "send_to" /\ trace[7].op = "send_to"
    /\ trace[8].op = "packet_sent"

\* ------------------------------------------- claims: the mapping is mutated
\* Evaluating the mapping ends at this entry.
Stops(entry) ==
    \/ TemplateFails(entry) /\ is_required(entry)
    \/ DeserializationFails(entry) /\ (entry.key = "client_ip_address" \/ is_required(entry))

\* The last evaluation got as far as entry i of the mapping it found.
Reached(i) == \A j \in 1..(i - 1) : ~Stops(mapped.from[j])

\* C29: an evaluation of the mapping leaves in the stored mapping, in place of
\* every value it expanded, the expanded value, and the result of the next
\* evaluation is the result these stored values give, whatever the context of
\* the later packet holds: it equals the result of the earlier packet.
C29_MappingExpandedInPlace ==
    /\ mapped.done =>
          /\ DOMAIN mapping = DOMAIN mapped.from
          /\ \A i \in DOMAIN mapping :
                mapping[i] = IF Reached(i) /\ ~TemplateFails(mapped.from[i])
                             THEN Expanded(mapped.from[i])
                             ELSE mapped.from[i]
    /\ mapped.again =>
          /\ mapped.res = mapped.first.res
          /\ \A ctx \in Contexts : context_to_result(mapped.from, ctx).res = mapped.res

C29_Witness ==
    /\ mapped.again
    /\ mapped.first.context = Context /\ mapped.context = Context2
    /\ \E i \in DOMAIN mapped.first.from :
          /\ mapped.first.from[i].key = "client_ip_address"
          /\ mapped.first.from[i].data = String("{{ ip }}")
          /\ mapped.from[i].data = String("1.2.3.4")
    /\ mapped.res.ok /\ mapped.res.client_ip_address = <<1, 2, 3, 4>>
    /\ context_to_result(mapped.first.from, Context2).res.client_ip_address = <<5, 5, 5, 5>>

\* ------------------------------------------------- claims: the phase methods
\* The calls of json the phase made, and the scripts it ran.
QueryCalls == {i \in DOMAIN calls : calls[i].op \in {"query", "query_failed"}}

ScriptCalls == {i \in DOMAIN calls : calls[i].op \in {"script", "script_failed"}}

\* The results of the calls 1..k, keyed by query name: of two queries of one
\* name the later one stays.
ResultsOf(k) ==
    {<<calls[j].name, calls[j].value>> :
        j \in {j \in 1..k : calls[j].op = "query"
                            /\ \A l \in (j + 1)..k : calls[l].name # calls[j].name}}

\* C22: a script with wait = true keeps the phase in run until its child has
\* ended or its timeout has elapsed; a script with wait = false never does,
\* the phase goes on while the child runs; an error of the spawn (or of the
\* expansion of exec and args) ends the phase with that error.
C22_ScriptWait ==
    /\ [](at = "wait" => (config.scripts[si].wait /\ children[si] # "none"))
    /\ [](\A i \in DOMAIN children :
             (config.scripts[i].wait /\ children[i] = "running") => (at = "wait" /\ si = i))
    /\ [][(at = "wait" /\ at' # "wait") =>
             (children[si] \in {"exited", "timed_out"} /\ at' = "scripts" /\ si' = si + 1)]_vars
    /\ [](\A i \in DOMAIN calls :
             calls[i].op = "script_failed" =>
                 /\ i = Len(calls) /\ at = "returned"
                 /\ phase_ret = calls[i].value /\ phase_ret \in {TeraError, "Err_IoError"}
                 /\ children[calls[i].n] = "none")

C22_Witness ==
    /\ config.scripts = <<[wait |-> FALSE], [wait |-> TRUE]>>
    /\ at = "wait" /\ si = 2
    /\ children = <<"running", "running">>

\* C23: the queries of a phase run in configuration order, and the context the
\* k-th query expands its URL and body with has the four keys of the packet
\* and, from the second query on, under `results` exactly the results of the
\* queries before it, keyed by query name.
C23_QueryContext ==
    /\ \A i \in QueryCalls :
          /\ calls[i].n = i /\ i <= Len(config.queries)
          /\ calls[i].name = config.queries[i].name
          /\ \A j \in 1..(i - 1) : calls[j].op = "query"
          /\ calls[i].keys = PacketKeys \cup (IF i > 1 THEN {"results"} ELSE {})
          /\ calls[i].results = ResultsOf(i - 1)
          /\ calls[i].op = "query" <=>
                (calls[i].value \in JsonValues
                    /\ \A u \in UrlUses(calls[i].name) : \E j \in 1..(i - 1) : calls[j].name = u)
    /\ at = "query" =>
          /\ Len(calls) = qi - 1 /\ QueryCalls = DOMAIN calls
          /\ context = Ctx(qi > 1, ResultsOf(qi - 1))

C23_Witness ==
    /\ at = "returned" /\ phase = "release" /\ phase_ret = "Ok"
    /\ Len(config.queries) = 2 /\ Len(calls) = 2
    /\ calls[1].name = "a" /\ calls[1].value = "json2" /\ calls[1].results = {}
    /\ calls[2].name = "b" /\ calls[2].results = {<<"a", "json2">>}
    /\ "results" \notin calls[1].keys /\ "results" \in calls[2].keys

\* C24: a script is run in the offer phase only; there the scripts run in
\* configuration order after the last query, each with the final context, and
\* the mapping is evaluated after the last script; reserve, inform, release
\* and decline run no script.
C24_ScriptsOnlyInOffer ==
    /\ \A i \in ScriptCalls :
          /\ phase = "offer"
          /\ qi = Len(config.queries) + 1
          /\ \A j \in 1..Len(config.queries) : calls[j].op = "query"
          /\ i = Len(config.queries) + calls[i].n
          /\ calls[i].n <= Len(config.scripts)
          /\ calls[i].keys = context.keys /\ calls[i].results = context.results
          /\ calls[i].results = ResultsOf(Len(config.queries))
    /\ \A i \in DOMAIN calls :
          calls[i].op = "context_to_result" =>
              /\ i = Len(calls) /\ at = "returned"
              /\ phase \in {"offer", "reserve", "inform"}
              /\ i = Len(config.queries) + 1 + (IF phase = "offer" THEN Len(config.scripts) ELSE 0)
              /\ \A j \in ScriptCalls : calls[j].op = "script"
    /\ phase # "offer" => (ScriptCalls = {} /\ \A i \in DOMAIN children : children[i] = "none")
    /\ (at = "returned" /\ phase_ret = "Ok" /\ phase \in {"offer", "reserve", "inform"}) =>
          calls[Len(calls)].op = "context_to_result"

C24_Witness ==
    /\ at = "returned" /\ phase = "offer" /\ phase_ret = "Ok"
    /\ Len(config.queries) = 2 /\ Len(config.scripts) = 2
    /\ Len(calls) = 5
    /\ calls[3].op = "script" /\ calls[4].op = "script"
    /\ calls[5].op = "context_to_result"

\* ------------------------------------------- claims: the body of a query
\* C31 as stated: the body json is called with for a query is the body the
\* query is configured with, expanded with the context of the packet in hand,
\* whatever packets were handled before.
C31_BodyFromOwnContext ==
    \A i \in DOMAIN calls :
        calls[i].op = "query" =>
            calls[i].body = template_value(BodyOf(calls[i].name), PacketContext(packet)).value

\* ------------------------------------- claims: the image a handler parses
\* C32 as stated: the bytes a handler is spawned with are the bytes of the
\* datagram it handles over a fresh buffer, so that no byte of an earlier
\* datagram is among them, also behind a shorter datagram.
C32_BytesOfThisDatagramOnly ==
    handlers > 0 =>
        process_bytes = recv_from([i \in 1..UDP_PACKET_BUFFER_SIZE |-> 0], Image(message))

====
